---- MODULE Spec2Model ----
(***************************************************************************)
(* Model of zerver/lib/digest.py: the digest email of a Zulip user.        *)
(*                                                                         *)
(* The module is read-only over the store (UserProfile, Stream,            *)
(* Subscription, UserMessage rows).  Each function of the file is an       *)
(* operator computed as the code computes it, and each specification       *)
(* draws a store or an argument list from bounded sets and applies one     *)
(* function to it.                                                         *)
(*                                                                         *)
(* Python values are modelled as follows.                                  *)
(*   list            a sequence                                            *)
(*   set             a set                                                 *)
(*   None / a list   a record [none |-> BOOLEAN, value |-> sequence]       *)
(*   datetime        a number of ticks (TicksPerSecond ticks per second)   *)
(*   QuerySet        the sequence of its rows: in the order_by order, or,  *)
(*                   without order_by, in the order the store yields them  *)
(***************************************************************************)
EXTENDS Integers, Sequences, FiniteSets, TLC

VARIABLES
    pc,                 \* "init" before the call of the specification's function, "done" after
    args,               \* the arguments of the call
    ret,                \* the value returned by the call
    locals,             \* the local variables of the call at its end
    user_profiles,      \* UserProfile rows
    streams,            \* Stream rows
    subscriptions,      \* Subscription rows
    user_messages,      \* UserMessage rows (each holds its Message)
    template_payload,   \* handle_digest_email: the payload handed to the templates
    sent                \* handle_digest_email: the calls made to send_future_email

vars == <<pc, args, ret, locals, user_profiles, streams, subscriptions,
          user_messages, template_payload, sent>>

-----------------------------------------------------------------------------
(* Bounds of the model *)

\* Longest list of stream messages handed to gather_hot_conversations.
MaxStreamMsgs == 5

\* Largest count or list length handed to enough_traffic.
MaxCount == 3

\* Resolution of the clock: ticks per second of a datetime.
TicksPerSecond == 2

\* Latest cutoff handed to handle_digest_email, in epoch seconds.
MaxCutoff == 1

\* Latest date_joined, date_created and threshold of SpecGather, in ticks.
MaxStamp == 2

\* Number of messages a store of SpecPMs can hold.
MaxPMs == 5

\* Number of messages a store of SpecDigest can hold for the user.
MaxMsgs == 3

-----------------------------------------------------------------------------
(* Constants of the program *)

\* handle_digest_email: "Show up to 4 missed PMs."
pms_limit == 4

-----------------------------------------------------------------------------
(* Python helpers *)

None == [none |-> TRUE, value |-> <<>>]

Some(list) == [none |-> FALSE, value |-> list]

\* Truth value of an optional list: None and [] are false.
TruthyList(x) == (~x.none) /\ x.value # <<>>

\* Truth value of an int.
TruthyInt(n) == n # 0

Min(a, b) == IF a <= b THEN a ELSE b

Range(seq) == {seq[i] : i \in 1..Len(seq)}

\* seq[:n]
Take(seq, n) == SubSeq(seq, 1, Min(n, Len(seq)))

\* The permutations of a finite set, as sequences.
RECURSIVE Perms(_)
Perms(S) ==
    IF S = {}
    THEN {<<>>}
    ELSE UNION {{<<x>> \o p : p \in Perms(S \ {x})} : x \in S}

\* list.sort(key=..., reverse=True), weight[e] being the key of entry e:
\* descending by weight, and stable (entries of equal weight keep their
\* relative order).
SortReverse(seq, weight) ==
    LET n == Len(seq)
        rank == [i \in 1..n |->
                    Cardinality({j \in 1..n :
                        \/ weight[seq[j]] > weight[seq[i]]
                        \/ weight[seq[j]] = weight[seq[i]] /\ j < i}) + 1]
    IN  [r \in 1..n |-> seq[CHOOSE i \in 1..n : rank[i] = r]]

-----------------------------------------------------------------------------
(* enough_traffic *)

enough_traffic_no_and(unread_pms, hot_conversations, new_streams, new_users) ==
    IF TruthyList(unread_pms) \/ TruthyList(hot_conversations)
    THEN TRUE
    ELSE IF TruthyInt(new_streams) \/ TruthyInt(new_users)
         THEN TRUE
         ELSE FALSE

enough_traffic(unread_pms, hot_conversations, new_streams, new_users) ==
    IF TruthyList(unread_pms) \/ TruthyList(hot_conversations)
    THEN TRUE
    ELSE IF TruthyInt(new_streams) /\ TruthyInt(new_users)
         THEN TRUE
         ELSE FALSE

-----------------------------------------------------------------------------
(* build_message_list (zerver.lib.actions): the external formatter.  It    *)
(* renders the messages it is given; the result is empty exactly for an    *)
(* empty list of messages.                                                 *)

build_message_list(user_profile, messages) ==
    [i \in 1..Len(messages) |-> [rendered |-> messages[i].id]]

-----------------------------------------------------------------------------
(* gather_hot_conversations *)

\* key = (message.recipient.type_id, message.subject)
ConversationKey(user_message) ==
    <<user_message.message.recipient.type_id, user_message.message.subject>>

\* The keys of the two defaultdicts after the loop over stream_messages.
ConversationKeys(stream_messages) ==
    {ConversationKey(stream_messages[i]) : i \in 1..Len(stream_messages)}

\* conversation_diversity[key]: the set of the senders' full names.
conversation_diversity(stream_messages, key) ==
    {stream_messages[i].message.sender :
        i \in {j \in 1..Len(stream_messages) : ConversationKey(stream_messages[j]) = key}}

\* conversation_length[key]: the number of messages.
conversation_length(stream_messages, key) ==
    Cardinality({i \in 1..Len(stream_messages) : ConversationKey(stream_messages[i]) = key})

\* diversity_list, as the list of its keys.  dict_order is the order in which
\* the dict yields its items.
diversity_list(stream_messages, dict_order) ==
    LET weight == [key \in Range(dict_order) |->
                      Cardinality(conversation_diversity(stream_messages, key))]
    IN  SortReverse(dict_order, weight)

\* length_list, as the list of its keys.
length_list(stream_messages, dict_order) ==
    LET weight == [key \in Range(dict_order) |->
                      conversation_length(stream_messages, key)]
    IN  SortReverse(dict_order, weight)

\* The loop over length_list: append the candidates not yet selected, and
\* stop once 4 are selected.
RECURSIVE FillFromLengthList(_, _, _)
FillFromLengthList(hot_conversations, candidates, i) ==
    IF i > Len(candidates)
    THEN hot_conversations
    ELSE LET appended == IF candidates[i] \in Range(hot_conversations)
                         THEN hot_conversations
                         ELSE Append(hot_conversations, candidates[i])
         IN  IF Len(appended) >= 4
             THEN appended
             ELSE FillFromLengthList(appended, candidates, i + 1)

select_hot_conversations_no_seed(diversity, length) ==
    FillFromLengthList(<<>>, length, 1)

select_hot_conversations(diversity, length) ==
    FillFromLengthList(Take(diversity, 2), length, 1)

\* stream_messages.filter(message__recipient__type_id=stream_id,
\*                        message__subject=subject)[:2]
first_few_messages(stream_messages, key) ==
    LET in_conversation(user_message) == ConversationKey(user_message) = key
        rows == Take(SelectSeq(stream_messages, in_conversation), 2)
    IN  [i \in 1..Len(rows) |-> rows[i].message]

teaser_data(user_profile, stream_messages, key) ==
    LET few == first_few_messages(stream_messages, key)
    IN  [participants |-> conversation_diversity(stream_messages, key),
         count |-> conversation_length(stream_messages, key) - Len(few),
         first_few_messages |-> build_message_list(user_profile, few)]

\* The loop over hot_conversations returns in its first iteration; when
\* nothing is selected the function ends without a return statement.
render_payloads_all(user_profile, stream_messages, hot_conversations) ==
    Some([i \in 1..Len(hot_conversations) |->
            teaser_data(user_profile, stream_messages, hot_conversations[i])])

render_payloads(user_profile, stream_messages, hot_conversations) ==
    IF hot_conversations = <<>>
    THEN None
    ELSE Some(<<teaser_data(user_profile, stream_messages, hot_conversations[1])>>)

\* The local variables of gather_hot_conversations at its end.
gather_hot_conversations_locals(user_profile, stream_messages, dict_order) ==
    LET diversity == diversity_list(stream_messages, dict_order)
        length == length_list(stream_messages, dict_order)
        hot == select_hot_conversations(diversity, length)
    IN  [dict_order |-> dict_order,
         diversity_list |-> diversity,
         length_list |-> length,
         hot_conversations |-> hot,
         result |-> render_payloads(user_profile, stream_messages, hot)]

gather_hot_conversations(user_profile, stream_messages, dict_order) ==
    gather_hot_conversations_locals(user_profile, stream_messages, dict_order).result

-----------------------------------------------------------------------------
(* The store.  A store is a record of the four tables the module reads:    *)
(*   user_profiles  rows [id, realm, date_joined, is_bot, full_name, email]*)
(*   streams        rows [id, realm, date_created, name]                   *)
(*   subscriptions  rows [user_profile, recipient, active, in_home_view]   *)
(*   user_messages  rows [user_profile, message], with                     *)
(*                  message = [id, pub_date, recipient, subject, sender]   *)
(* and recipient = [type, type_id].  A row names a user by its id.         *)

Recipient_STREAM == "stream"

\* The rows of a table as a list, in the order of key[row]; the keys of the
\* rows are distinct.
OrderBy(rows, key) ==
    LET n == Cardinality(rows)
    IN  [i \in 1..n |->
            CHOOSE r \in rows : Cardinality({o \in rows : key[o] < key[r]}) = i - 1]

\* The rows of a query without order_by: those of the rows that pass the
\* filter, in the order in which the store yields the rows of the table.
InTableOrder(rows, table_order) ==
    LET passes(row) == row \in rows
    IN  SelectSeq(table_order, passes)

\* rows.order_by("message__pub_date")
ByPubDate(rows) == OrderBy(rows, [r \in rows |-> r.message.pub_date])

-----------------------------------------------------------------------------
(* gather_new_users *)

new_users_rows_no_bot_filter(store, user_profile, threshold) ==
    {u \in store.user_profiles :
        /\ u.realm = user_profile.realm
        /\ u.date_joined > threshold}

\* The rows of UserProfile.objects.filter(realm=..., date_joined__gt=threshold,
\* is_bot=False).
new_users_rows(store, user_profile, threshold) ==
    {u \in store.user_profiles :
        /\ u.realm = user_profile.realm
        /\ u.date_joined > threshold
        /\ u.is_bot = FALSE}

\* table_order is the order in which the store yields the UserProfile rows.
gather_new_users(store, user_profile, threshold, table_order) ==
    LET new_users ==
            InTableOrder(new_users_rows(store, user_profile, threshold), table_order)
        user_names == [i \in 1..Len(new_users) |-> new_users[i].full_name]
    IN  <<Len(user_names), user_names>>

-----------------------------------------------------------------------------
(* gather_new_streams *)

\* hashchange_encode (zerver.lib.actions): the external URL encoder.
hashchange_encode(name) == [hashchange_encoded |-> name]

\* The rows of Stream.objects.filter(realm=..., date_created__gt=threshold).
new_streams_rows(store, user_profile, threshold) ==
    {st \in store.streams :
        /\ st.realm = user_profile.realm
        /\ st.date_created > threshold}

\* table_order is the order in which the store yields the Stream rows.
gather_new_streams(store, user_profile, threshold, table_order) ==
    LET new_streams ==
            InTableOrder(new_streams_rows(store, user_profile, threshold), table_order)
        base_url == "https://zulip.com/#narrow/stream/"
        narrow_url(stream) == <<base_url, hashchange_encode(stream.name)>>
        streams_html == [i \in 1..Len(new_streams) |->
                            [href |-> narrow_url(new_streams[i]),
                             text |-> new_streams[i].name]]
        streams_plain == [i \in 1..Len(new_streams) |-> new_streams[i].name]
    IN  <<Len(new_streams), [html |-> streams_html, plain |-> streams_plain]>>

-----------------------------------------------------------------------------
(* handle_digest_email *)

\* datetime.datetime.utcfromtimestamp(int(cutoff)): the cutoff is a whole
\* number of epoch seconds, which int() leaves as it is; the datetime is that
\* number of seconds in ticks.
utcfromtimestamp(seconds) == seconds * TicksPerSecond

\* loader.render_to_string (django.template)
render_to_string(template, payload) == [template |-> template, context |-> payload]

all_messages_from_cutoff(store, user_profile, cutoff) ==
    ByPubDate({um \in store.user_messages :
                /\ um.user_profile = user_profile.id
                /\ um.message.pub_date >= cutoff})

\* UserMessage.objects.filter(user_profile=..., message__pub_date__gt=cutoff)
\*     .order_by("message__pub_date")
all_messages(store, user_profile, cutoff) ==
    ByPubDate({um \in store.user_messages :
                /\ um.user_profile = user_profile.id
                /\ um.message.pub_date > cutoff})

\* all_messages.filter(~Q(message__recipient__type=Recipient.STREAM))
pms_of(messages) ==
    LET not_stream(um) == um.message.recipient.type # Recipient_STREAM
    IN  SelectSeq(messages, not_stream)

pms_preview_latest(pms) == SubSeq(pms, Len(pms) - Min(pms_limit, Len(pms)) + 1, Len(pms))

\* pms[:pms_limit]
pms_preview(pms) == Take(pms, pms_limit)

remaining_unread_pms_count_max(pms) ==
    IF Len(pms) - pms_limit >= 0 THEN Len(pms) - pms_limit ELSE 0

\* min(0, len(pms) - pms_limit)
remaining_unread_pms_count(pms) == Min(0, Len(pms) - pms_limit)

home_view_recipients_any_view(store, user_profile) ==
    {sub.recipient : sub \in {r \in store.subscriptions :
        /\ r.user_profile = user_profile.id
        /\ r.active = TRUE}}

\* [sub.recipient for sub in Subscription.objects.filter(
\*      user_profile=user_profile, active=True, in_home_view=True)]
home_view_recipients(store, user_profile) ==
    {sub.recipient : sub \in {r \in store.subscriptions :
        /\ r.user_profile = user_profile.id
        /\ r.active = TRUE
        /\ r.in_home_view = TRUE}}

\* all_messages.filter(message__recipient__type=Recipient.STREAM,
\*                     message__recipient__in=home_view_recipients)
stream_messages_of(messages, recipients) ==
    LET visible(um) ==
            /\ um.message.recipient.type = Recipient_STREAM
            /\ um.message.recipient \in recipients
    IN  SelectSeq(messages, visible)

\* The run of handle_digest_email: the payload, the calls made to
\* send_future_email, and the local variables.  dict_order is the order in
\* which the dicts of gather_hot_conversations yield their items;
\* streams_order and users_order are the orders in which the store yields
\* the Stream and the UserProfile rows.
handle_digest_email(store, user_profile_id, cutoff_seconds, dict_order, streams_order, users_order) ==
    LET user_profile == CHOOSE u \in store.user_profiles : u.id = user_profile_id
        cutoff == utcfromtimestamp(cutoff_seconds)
        messages == all_messages(store, user_profile, cutoff)
        pms == pms_of(messages)
        shown == pms_preview(pms)
        preview == [i \in 1..Len(shown) |-> shown[i].message]
        unread_pms == build_message_list(user_profile, preview)
        stream_messages ==
            stream_messages_of(messages, home_view_recipients(store, user_profile))
        hot_conversations ==
            gather_hot_conversations(user_profile, stream_messages, dict_order)
        new_streams == gather_new_streams(store, user_profile, cutoff, streams_order)
        new_users == gather_new_users(store, user_profile, cutoff, users_order)
        payload == [name |-> user_profile.full_name,
                    unread_pms |-> unread_pms,
                    remaining_unread_pms_count |-> remaining_unread_pms_count(pms),
                    hot_conversations |-> hot_conversations,
                    new_streams |-> new_streams[2],
                    new_streams_count |-> new_streams[1],
                    new_users |-> new_users[2]]
        email == [recipients |-> <<[email |-> user_profile.email,
                                    name |-> user_profile.full_name]>>,
                  html_content |-> render_to_string(
                      "zerver/emails/digest/digest_email_html.txt", payload),
                  text_content |-> render_to_string(
                      "zerver/emails/digest/digest_email.txt", payload),
                  subject |-> "While you've been gone: the Zulip Digest",
                  delay |-> 0,
                  sender |-> [email |-> "support@zulip.com", name |-> "Zulip Support"],
                  tags |-> <<"digest-emails">>]
    IN  [template_payload |-> payload,
         sent |-> IF enough_traffic(Some(unread_pms), hot_conversations,
                                   new_streams[1], new_users[1])
                  THEN <<email>>
                  ELSE <<>>,
         locals |-> [cutoff |-> cutoff,
                     pms |-> pms,
                     pms_preview |-> preview,
                     stream_messages |-> stream_messages,
                     new_streams_count |-> new_streams[1],
                     new_users_count |-> new_users[1]]]

\* The orders in which the dicts of gather_hot_conversations can yield the
\* conversations of the user's stream messages.
DictOrders(store, user_profile_id, cutoff_seconds) ==
    LET user_profile == CHOOSE u \in store.user_profiles : u.id = user_profile_id
        messages == all_messages(store, user_profile, utcfromtimestamp(cutoff_seconds))
    IN  Perms(ConversationKeys(
            stream_messages_of(messages, home_view_recipients(store, user_profile))))

\* The orders in which the store can yield the rows of the two unordered
\* queries of a run (the rows that pass no filter do not reach the run).
NewStreamsOrders(store, user_profile_id, cutoff_seconds) ==
    LET user_profile == CHOOSE u \in store.user_profiles : u.id = user_profile_id
    IN  Perms(new_streams_rows(store, user_profile, utcfromtimestamp(cutoff_seconds)))

NewUsersOrders(store, user_profile_id, cutoff_seconds) ==
    LET user_profile == CHOOSE u \in store.user_profiles : u.id = user_profile_id
    IN  Perms(new_users_rows(store, user_profile, utcfromtimestamp(cutoff_seconds)))

-----------------------------------------------------------------------------
(* The values left in the variables a specification does not use. *)

NoValue == <<>>

NoStore ==
    /\ user_profiles = {}
    /\ streams = {}
    /\ subscriptions = {}
    /\ user_messages = {}

NoDigest ==
    /\ template_payload = NoValue
    /\ sent = <<>>

-----------------------------------------------------------------------------
(* SpecGate: enough_traffic applied to every combination of its arguments. *)

RenderedLists == {[i \in 1..n |-> [rendered |-> i]] : n \in 0..MaxCount}

OptionalLists == {None} \cup {Some(list) : list \in RenderedLists}

InitGate ==
    /\ pc = "init"
    /\ args \in [unread_pms : OptionalLists,
                 hot_conversations : OptionalLists,
                 new_streams : 0..MaxCount,
                 new_users : 0..MaxCount]
    /\ ret = NoValue
    /\ locals = NoValue
    /\ NoStore
    /\ NoDigest

EnoughTraffic ==
    /\ pc = "init"
    /\ pc' = "done"
    /\ ret' = enough_traffic(args.unread_pms, args.hot_conversations,
                             args.new_streams, args.new_users)
    /\ UNCHANGED <<args, locals, user_profiles, streams, subscriptions,
                   user_messages, template_payload, sent>>

NextGate == EnoughTraffic

SpecGate == InitGate /\ [][NextGate]_vars

-----------------------------------------------------------------------------
(* SpecRank: gather_hot_conversations applied to lists of stream messages. *)

\* The conversations a message can belong to: five (stream id, subject) pairs.
KeyEnum == <<<<1, "a">>, <<1, "b">>, <<2, "a">>, <<2, "b">>, <<3, "a">>>>

Senders == {"Ann", "Bob"}

\* Lists of n indices into KeyEnum in which each conversation first occurs
\* after all the conversations that precede it in KeyEnum (the function
\* reads keys only through equality, so every list of messages is one of
\* these up to a renaming of its conversations; likewise the first sender
\* is Ann).
RECURSIVE KeyIndexLists(_)
KeyIndexLists(n) ==
    IF n = 0
    THEN {<<>>}
    ELSE {Append(ks, k) : ks \in KeyIndexLists(n - 1), k \in 1..Len(KeyEnum)}

FirstOccurrencesInOrder(ks) ==
    \A i \in 1..Len(ks) : ks[i] = 1 \/ \E j \in 1..(i - 1) : ks[j] = ks[i] - 1

StreamMessage(owner, id, pub_date, key, sender) ==
    [user_profile |-> owner,
     message |-> [id |-> id,
                  pub_date |-> pub_date,
                  recipient |-> [type |-> "stream", type_id |-> key[1]],
                  subject |-> key[2],
                  sender |-> sender]]

StreamMessageLists ==
    UNION {
        {[i \in 1..n |-> StreamMessage(1, i, i, KeyEnum[ks[i]], ss[i])] :
            ks \in {l \in KeyIndexLists(n) : FirstOccurrencesInOrder(l)},
            ss \in {l \in [1..n -> Senders] : n = 0 \/ l[1] = "Ann"}} :
        n \in 0..MaxStreamMsgs}

InitRank ==
    /\ pc = "init"
    /\ args \in [user_profile : {1}, stream_messages : StreamMessageLists]
    /\ ret = NoValue
    /\ locals = NoValue
    /\ NoStore
    /\ NoDigest

GatherHotConversations ==
    /\ pc = "init"
    /\ pc' = "done"
    /\ \E dict_order \in Perms(ConversationKeys(args.stream_messages)) :
          /\ locals' = gather_hot_conversations_locals(
                           args.user_profile, args.stream_messages, dict_order)
          /\ ret' = locals'.result
    /\ UNCHANGED <<args, user_profiles, streams, subscriptions,
                   user_messages, template_payload, sent>>

NextRank == GatherHotConversations

SpecRank == InitRank /\ [][NextRank]_vars

-----------------------------------------------------------------------------
(* Rows of the store *)

FullNames == <<"Ann", "Bob", "Cat", "Dan", "Eve">>

Emails == <<"ann@example.com", "bob@example.com", "cat@example.com",
           "dan@example.com", "eve@example.com">>

UserProfile(id, realm, date_joined, is_bot) ==
    [id |-> id, realm |-> realm, date_joined |-> date_joined, is_bot |-> is_bot,
     full_name |-> FullNames[id], email |-> Emails[id]]

StreamNames == <<"devel", "social", "ops", "sales">>

Stream(id, realm, date_created) ==
    [id |-> id, realm |-> realm, date_created |-> date_created, name |-> StreamNames[id]]

StreamRecipient(stream_id) == [type |-> Recipient_STREAM, type_id |-> stream_id]

PersonalRecipient(user_id) == [type |-> "personal", type_id |-> user_id]

HuddleRecipient(huddle_id) == [type |-> "huddle", type_id |-> huddle_id]

Subscription(user_id, recipient, active, in_home_view) ==
    [user_profile |-> user_id, recipient |-> recipient,
     active |-> active, in_home_view |-> in_home_view]

\* A message is published at the tick that is its id.
UserMessage(user_id, id, recipient, subject, sender) ==
    [user_profile |-> user_id,
     message |-> [id |-> id, pub_date |-> id, recipient |-> recipient,
                  subject |-> subject, sender |-> sender]]

Store == [user_profiles |-> user_profiles, streams |-> streams,
          subscriptions |-> subscriptions, user_messages |-> user_messages]

\* The users whose digest is computed.
DigestUsers == {1}

-----------------------------------------------------------------------------
(* SpecGather: gather_new_users and gather_new_streams applied to tables   *)
(* of two users and two streams.                                           *)

Realms == {"zulip", "other"}

InitGather ==
    /\ pc = "init"
    /\ args = NoValue
    /\ ret = NoValue
    /\ locals = NoValue
    /\ \E realm \in [1..2 -> Realms], joined \in [1..2 -> 0..MaxStamp],
          bot \in [1..2 -> BOOLEAN] :
          user_profiles = {UserProfile(i, realm[i], joined[i], bot[i]) : i \in 1..2}
    /\ \E realm \in [1..2 -> Realms], created \in [1..2 -> 0..MaxStamp] :
          streams = {Stream(i, realm[i], created[i]) : i \in 1..2}
    /\ subscriptions = {}
    /\ user_messages = {}
    /\ NoDigest

GatherNewUsers ==
    /\ pc = "init"
    /\ pc' = "done"
    /\ \E user_profile \in {u \in user_profiles : u.id \in DigestUsers},
          threshold \in 0..MaxStamp, table_order \in Perms(user_profiles) :
          /\ args' = [function |-> "gather_new_users",
                      user_profile |-> user_profile, threshold |-> threshold]
          /\ locals' = [table_order |-> table_order]
          /\ ret' = gather_new_users(Store, user_profile, threshold, table_order)
    /\ UNCHANGED <<user_profiles, streams, subscriptions, user_messages,
                   template_payload, sent>>

GatherNewStreams ==
    /\ pc = "init"
    /\ pc' = "done"
    /\ \E user_profile \in {u \in user_profiles : u.id \in DigestUsers},
          threshold \in 0..MaxStamp, table_order \in Perms(streams) :
          /\ args' = [function |-> "gather_new_streams",
                      user_profile |-> user_profile, threshold |-> threshold]
          /\ locals' = [table_order |-> table_order]
          /\ ret' = gather_new_streams(Store, user_profile, threshold, table_order)
    /\ UNCHANGED <<user_profiles, streams, subscriptions, user_messages,
                   template_payload, sent>>

NextGather == GatherNewUsers \/ GatherNewStreams

SpecGather == InitGather /\ [][NextGather]_vars

-----------------------------------------------------------------------------
(* handle_digest_email as an action, shared by SpecPMs and SpecDigest *)

HandleDigestEmail ==
    /\ pc = "init"
    /\ pc' = "done"
    /\ \E user_profile_id \in DigestUsers, cutoff \in 0..MaxCutoff :
          \E dict_order \in DictOrders(Store, user_profile_id, cutoff),
             streams_order \in NewStreamsOrders(Store, user_profile_id, cutoff),
             users_order \in NewUsersOrders(Store, user_profile_id, cutoff) :
              LET run == handle_digest_email(Store, user_profile_id, cutoff, dict_order,
                                             streams_order, users_order)
              IN  /\ args' = [user_profile_id |-> user_profile_id, cutoff |-> cutoff]
                  /\ template_payload' = run.template_payload
                  /\ sent' = run.sent
                  /\ locals' = run.locals
    /\ ret' = None
    /\ UNCHANGED <<user_profiles, streams, subscriptions, user_messages>>

NextDigest == HandleDigestEmail

-----------------------------------------------------------------------------
(* SpecPMs: handle_digest_email applied to stores that hold up to MaxPMs   *)
(* messages: direct messages of the user (personal and huddle), direct     *)
(* messages of another user, and messages of a stream the user sees.  A    *)
(* fourth user and a second stream are either both old or both recent.     *)

PMKinds == {"absent", "personal", "huddle", "other user", "stream"}

PMStoreMessage(tick, kind) ==
    CASE kind = "personal" ->
            UserMessage(1, tick, PersonalRecipient(1), "", "Bob")
      [] kind = "huddle" ->
            UserMessage(1, tick, HuddleRecipient(1), "", "Cat")
      [] kind = "other user" ->
            UserMessage(2, tick, PersonalRecipient(2), "", "Ann")
      [] kind = "stream" ->
            UserMessage(1, tick, StreamRecipient(1), "a", "Bob")

InitPMs ==
    /\ pc = "init"
    /\ args = NoValue
    /\ ret = NoValue
    /\ locals = NoValue
    /\ \E recent \in {0, MaxPMs} :
          /\ user_profiles = {UserProfile(1, "zulip", 0, FALSE),
                              UserProfile(2, "zulip", 0, FALSE),
                              UserProfile(3, "zulip", 0, FALSE),
                              UserProfile(4, "zulip", recent, FALSE)}
          /\ streams = {Stream(1, "zulip", 0), Stream(2, "zulip", recent)}
    /\ subscriptions = {Subscription(1, StreamRecipient(1), TRUE, TRUE),
                        Subscription(1, HuddleRecipient(1), TRUE, TRUE)}
    /\ \E kind \in [1..MaxPMs -> PMKinds] :
          user_messages =
              {PMStoreMessage(t, kind[t]) : t \in {i \in 1..MaxPMs : kind[i] # "absent"}}
    /\ NoDigest

SpecPMs == InitPMs /\ [][NextDigest]_vars

-----------------------------------------------------------------------------
(* SpecDigest: handle_digest_email applied to stores that vary in the      *)
(* user's messages, in the user's subscription to stream 1, and in the     *)
(* dates of user 4 and stream 3, which have no messages.  Every store also *)
(* holds a user and a stream of another realm, and a message and a         *)
(* subscription of user 2.  The user has no subscription to stream 2.      *)

DigestKinds == {"absent", "personal", "stream 1 a", "stream 1 b", "stream 2 a"}

DigestStoreMessage(tick, kind) ==
    CASE kind = "personal" ->
            UserMessage(1, tick, PersonalRecipient(1), "", "Bob")
      [] kind = "stream 1 a" ->
            UserMessage(1, tick, StreamRecipient(1), "a", "Ann")
      [] kind = "stream 1 b" ->
            UserMessage(1, tick, StreamRecipient(1), "b", "Bob")
      [] kind = "stream 2 a" ->
            UserMessage(1, tick, StreamRecipient(2), "a", "Bob")

\* At or before every cutoff, at the cutoff of one second, after it.
DigestDates == {0, TicksPerSecond, TicksPerSecond + 1}

InitDigest ==
    /\ pc = "init"
    /\ args = NoValue
    /\ ret = NoValue
    /\ locals = NoValue
    /\ \E joined \in DigestDates, bot \in BOOLEAN :
          user_profiles = {UserProfile(1, "zulip", 0, FALSE),
                           UserProfile(2, "zulip", 0, FALSE),
                           UserProfile(4, "zulip", joined, bot),
                           UserProfile(5, "other", TicksPerSecond + 1, FALSE)}
    /\ \E created \in DigestDates :
          streams = {Stream(1, "zulip", 0),
                     Stream(2, "zulip", 0),
                     Stream(3, "zulip", created),
                     Stream(4, "other", TicksPerSecond + 1)}
    /\ \E own \in SUBSET {Subscription(1, StreamRecipient(1), active, in_home_view) :
                              active \in BOOLEAN, in_home_view \in BOOLEAN} :
          /\ Cardinality(own) <= 1
          /\ subscriptions = own \cup {Subscription(2, StreamRecipient(2), TRUE, TRUE)}
    /\ \E kind \in [1..MaxMsgs -> DigestKinds] :
          user_messages =
              {DigestStoreMessage(t, kind[t]) : t \in {i \in 1..MaxMsgs : kind[i] # "absent"}}
              \cup {UserMessage(2, MaxMsgs + 1, PersonalRecipient(2), "", "Ann")}
    /\ NoDigest

SpecDigest == InitDigest /\ [][NextDigest]_vars

-----------------------------------------------------------------------------
(* Properties of enough_traffic (SpecGate) *)

NonEmpty(x) == (~x.none) /\ Len(x.value) > 0

\* C1: enough_traffic returns true exactly when unread_pms or
\* hot_conversations is non-empty, or new_streams and new_users are both
\* non-zero; new streams alone or new users alone never make it true.
C1_EnoughTrafficRule ==
    pc = "done" =>
        /\ ret \in BOOLEAN
        /\ ret = TRUE <=>
              \/ NonEmpty(args.unread_pms) \/ NonEmpty(args.hot_conversations)
              \/ args.new_streams > 0 /\ args.new_users > 0
        /\ (/\ ~NonEmpty(args.unread_pms) /\ ~NonEmpty(args.hot_conversations)
            /\ args.new_streams = 0 \/ args.new_users = 0) => ret = FALSE

\* TrafficGate(unread=[], hot=[], new_streams=3, new_users=0) has returned false.
C1_Witness ==
    /\ pc = "done"
    /\ args.unread_pms = Some(<<>>)
    /\ args.hot_conversations = Some(<<>>)
    /\ args.new_streams = 3
    /\ args.new_users = 0
    /\ ret = FALSE

-----------------------------------------------------------------------------
(* Properties of gather_hot_conversations (SpecRank) *)

\* The messages of a conversation, read off the argument.
MessagesOf(key) ==
    {args.stream_messages[i].message : i \in
        {j \in 1..Len(args.stream_messages) :
            /\ args.stream_messages[j].message.recipient.type_id = key[1]
            /\ args.stream_messages[j].message.subject = key[2]}}

InputKeys ==
    {<<args.stream_messages[i].message.recipient.type_id,
       args.stream_messages[i].message.subject>> : i \in 1..Len(args.stream_messages)}

SendersOf(key) == {m.sender : m \in MessagesOf(key)}

\* The record of a conversation: its participants, the messages left after
\* the (up to two) earliest ones, and those earliest ones rendered, in order.
RecordOf(key) ==
    LET msgs == MessagesOf(key)
        earliest == {m \in msgs : Cardinality({o \in msgs : o.pub_date < m.pub_date}) < 2}
        nth(i) == CHOOSE m \in earliest :
                      Cardinality({o \in earliest : o.pub_date < m.pub_date}) = i - 1
    IN  [participants |-> SendersOf(key),
         count |-> Cardinality(msgs) - Cardinality(earliest),
         first_few_messages |->
             build_message_list(args.user_profile,
                                [i \in 1..Cardinality(earliest) |-> nth(i)])]

DiversityOf(key) == Cardinality(SendersOf(key))

LengthOf(key) == Cardinality(MessagesOf(key))

\* seq lists every key of the input once, by descending weight.
IsRanking(seq, weight) ==
    /\ Len(seq) = Cardinality(InputKeys)
    /\ Range(seq) = InputKeys
    /\ \A i, j \in 1..Len(seq) : i < j => weight[seq[i]] >= weight[seq[j]]

\* The selection the claim describes: the first two keys of the diversity
\* ranking, then the keys of the length ranking not among them, up to 4.
SelectionOf(diversity, length) ==
    LET seeds == SubSeq(diversity, 1, Min(2, Len(diversity)))
        unselected(key) == \A i \in 1..Len(seeds) : seeds[i] # key
        rest == SelectSeq(length, unselected)
    IN  seeds \o SubSeq(rest, 1, Min(4 - Len(seeds), Len(rest)))

\* C4: the returned list has a length between 0 and 4 that never exceeds
\* the number of distinct conversation keys of the input.
C4_LengthBounds ==
    pc = "done" =>
        /\ ~ret.none
        /\ Len(ret.value) \in 0..4
        /\ Len(ret.value) <= Cardinality(InputKeys)

\* C5: one record per selected conversation: an empty list for no
\* conversation, exactly k records for k < 4 conversations.
C5_OneRecordPerConversation ==
    pc = "done" =>
        /\ InputKeys = {} => ret = Some(<<>>)
        /\ Cardinality(InputKeys) < 4 =>
              (~ret.none) /\ Len(ret.value) = Cardinality(InputKeys)

\* C6: the selected keys are the first two of the ranking by distinct
\* senders followed by the not yet selected keys of the ranking by message
\* count, up to 4 in all; no key is selected twice, min(4, n) keys are
\* selected, and the records returned follow the selection order.
C6_SelectionOrder ==
    pc = "done" =>
        /\ IsRanking(locals.diversity_list, [key \in InputKeys |-> DiversityOf(key)])
        /\ IsRanking(locals.length_list, [key \in InputKeys |-> LengthOf(key)])
        /\ locals.hot_conversations =
              SelectionOf(locals.diversity_list, locals.length_list)
        /\ \A i, j \in 1..Len(locals.hot_conversations) :
              locals.hot_conversations[i] = locals.hot_conversations[j] => i = j
        /\ Len(locals.hot_conversations) = Min(4, Cardinality(InputKeys))
        /\ \A i \in 1..Len(ret.value) :
              /\ i <= Len(locals.hot_conversations)
              /\ ret.value[i] = RecordOf(locals.hot_conversations[i])

\* Three conversations: the first selected one has the most senders and is
\* not the head of the length ranking, which is selected third, after the
\* two seeds of the diversity ranking.
C6_Witness ==
    /\ pc = "done"
    /\ Len(locals.hot_conversations) = 3
    /\ locals.hot_conversations[1] # locals.length_list[1]
    /\ locals.hot_conversations[3] = locals.length_list[1]
    /\ DiversityOf(locals.hot_conversations[1]) > DiversityOf(locals.hot_conversations[3])

\* C10: for an input with at least one conversation the returned list holds
\* exactly one record, that of the first selected key, which is a key with
\* the most distinct senders, however many keys were selected.
C10_OnlyFirstRecord ==
    (pc = "done" /\ InputKeys # {}) =>
        /\ ~ret.none
        /\ Len(ret.value) = 1
        /\ ret.value[1] = RecordOf(locals.hot_conversations[1])
        /\ \A key \in InputKeys :
              DiversityOf(locals.hot_conversations[1]) >= DiversityOf(key)

\* Four keys are selected and one record is returned.
C10_Witness ==
    /\ pc = "done"
    /\ Len(locals.hot_conversations) = 4
    /\ ~ret.none
    /\ Len(ret.value) = 1

-----------------------------------------------------------------------------
(* Properties of gather_new_users and gather_new_streams (SpecGather) *)

\* The users and the streams the claim allows in a result: of the caller's
\* realm, stamped strictly after the threshold, and (users) not a bot.
ExpectedNewUsers ==
    {u \in user_profiles :
        /\ ~(u.date_joined <= args.threshold)
        /\ u.realm = args.user_profile.realm
        /\ ~u.is_bot}

ExpectedNewStreams ==
    {st \in streams :
        /\ ~(st.date_created <= args.threshold)
        /\ st.realm = args.user_profile.realm}

\* C7: the gatherers list no entity stamped at or before the cutoff or of
\* another realm, gather_new_users lists no bot, and the count returned is
\* the number of entities that pass these filters.
C7_GatherersFilter ==
    pc = "done" =>
        /\ args.function = "gather_new_users" =>
              /\ Range(ret[2]) = {u.full_name : u \in ExpectedNewUsers}
              /\ Len(ret[2]) = Cardinality(ExpectedNewUsers)
              /\ ret[1] = Cardinality(ExpectedNewUsers)
        /\ args.function = "gather_new_streams" =>
              /\ Range(ret[2].plain) = {st.name : st \in ExpectedNewStreams}
              /\ {link.text : link \in Range(ret[2].html)} =
                    {st.name : st \in ExpectedNewStreams}
              /\ Len(ret[2].plain) = Cardinality(ExpectedNewStreams)
              /\ Len(ret[2].html) = Cardinality(ExpectedNewStreams)
              /\ ret[1] = Cardinality(ExpectedNewStreams)

\* gather_new_users has listed one user and left out a user of the realm
\* who joined exactly at the threshold.
C7_Witness ==
    /\ pc = "done"
    /\ args.function = "gather_new_users"
    /\ \E u \in user_profiles :
          /\ u.date_joined = args.threshold
          /\ u.realm = args.user_profile.realm
          /\ ~u.is_bot
    /\ ret[1] = 1

-----------------------------------------------------------------------------
(* Properties of handle_digest_email (SpecPMs, SpecDigest) *)

CutoffTicks == args.cutoff * TicksPerSecond

\* The user's messages published strictly after the cutoff.
MessagesAfterCutoff ==
    {um.message : um \in {r \in user_messages :
        /\ r.user_profile = args.user_profile_id
        /\ r.message.pub_date > CutoffTicks}}

DirectMessagesAfterCutoff ==
    {m \in MessagesAfterCutoff : m.recipient.type \in {"personal", "huddle"}}

\* The recipients of the user's active home-view subscriptions.
VisibleRecipients ==
    {sub.recipient : sub \in {r \in subscriptions :
        r.user_profile = args.user_profile_id /\ r.active /\ r.in_home_view}}

VisibleStreamMessagesAfterCutoff ==
    {m \in MessagesAfterCutoff :
        m.recipient.type = "stream" /\ m.recipient \in VisibleRecipients}

DigestRealm == (CHOOSE u \in user_profiles : u.id = args.user_profile_id).realm

RealmHasNewStream ==
    \E st \in streams : st.realm = DigestRealm /\ st.date_created > CutoffTicks

RealmHasNewUser ==
    \E u \in user_profiles :
        u.realm = DigestRealm /\ ~u.is_bot /\ u.date_joined > CutoffTicks

\* C2: an invocation hands at most one email to send_future_email, and
\* hands one exactly when the user has a direct message after the cutoff,
\* or a stream message after the cutoff in an active home-view
\* subscription, or the realm has both a new stream and a new non-bot user;
\* the email carries the assembled payload.
C2_SendDecision ==
    pc = "done" =>
        /\ Len(sent) <= 1
        /\ Len(sent) = 1 <=>
              \/ DirectMessagesAfterCutoff # {}
              \/ VisibleStreamMessagesAfterCutoff # {}
              \/ RealmHasNewStream /\ RealmHasNewUser
        /\ Len(sent) = 1 =>
              /\ sent[1].html_content.context = template_payload
              /\ sent[1].text_content.context = template_payload
              /\ sent[1].delay = 0
              /\ sent[1].tags = <<"digest-emails">>

\* The email was sent on the strength of a new stream and a new user alone.
C2_Witness ==
    /\ pc = "done"
    /\ DirectMessagesAfterCutoff = {}
    /\ VisibleStreamMessagesAfterCutoff = {}
    /\ MessagesAfterCutoff # {}
    /\ RealmHasNewStream
    /\ RealmHasNewUser
    /\ Len(sent) = 1

\* C3: with n direct messages after the cutoff the formatter is handed
\* exactly the min(n, 4) earliest of them, in ascending order of publish
\* time, and for n >= 1 the email is sent.
C3_PreviewedMessages ==
    pc = "done" =>
        LET n == Cardinality(DirectMessagesAfterCutoff)
            preview == locals.pms_preview
        IN  /\ Len(preview) = Min(n, 4)
            /\ Range(preview) \subseteq DirectMessagesAfterCutoff
            /\ \A i, j \in 1..Len(preview) :
                  i < j => preview[i].pub_date < preview[j].pub_date
            /\ \A m \in DirectMessagesAfterCutoff \ Range(preview) :
                  \A i \in 1..Len(preview) : preview[i].pub_date < m.pub_date
            /\ template_payload.unread_pms =
                  build_message_list(args.user_profile_id, preview)
            /\ n >= 1 => Len(sent) = 1

\* Five direct messages after the cutoff and no stream message: four
\* previews and a send.
C3_Witness ==
    /\ pc = "done"
    /\ Cardinality(DirectMessagesAfterCutoff) = 5
    /\ MessagesAfterCutoff = DirectMessagesAfterCutoff
    /\ Len(locals.pms_preview) = 4
    /\ Len(sent) = 1

\* C9: remaining_unread_pms_count is min(0, n - 4): never positive, 0 for
\* n >= 4 and n - 4 for n < 4.
C9_RemainingCount ==
    pc = "done" =>
        LET n == Cardinality(DirectMessagesAfterCutoff)
            remaining == template_payload.remaining_unread_pms_count
        IN  /\ remaining <= 0
            /\ n >= 4 => remaining = 0
            /\ n < 4 => remaining = n - 4

\* Five direct messages after the cutoff, and a remaining count of 0.
C9_Witness ==
    /\ pc = "done"
    /\ Cardinality(DirectMessagesAfterCutoff) = 5
    /\ template_payload.remaining_unread_pms_count = 0

\* The rows of the user that the claim says never reach the digest: the
\* messages at or before the cutoff, and the stream messages of streams
\* without an active home-view subscription of the user.
HiddenRows ==
    {r \in user_messages :
        /\ r.user_profile = args.user_profile_id
        /\ \/ r.message.pub_date <= CutoffTicks
           \/ r.message.recipient.type = "stream"
              /\ r.message.recipient \notin VisibleRecipients}

\* The hot conversations and the number of emails of every run of
\* handle_digest_email on a store that holds the given UserMessage rows.
DigestOutcomes(rows) ==
    LET store == [user_profiles |-> user_profiles, streams |-> streams,
                  subscriptions |-> subscriptions, user_messages |-> rows]
    IN  {[hot_conversations |-> run.template_payload.hot_conversations,
          emails |-> Len(run.sent)] :
            run \in {handle_digest_email(store, args.user_profile_id, args.cutoff,
                                         order, streams_order, users_order) :
                        order \in DictOrders(store, args.user_profile_id, args.cutoff),
                        streams_order \in
                            NewStreamsOrders(store, args.user_profile_id, args.cutoff),
                        users_order \in
                            NewUsersOrders(store, args.user_profile_id, args.cutoff)}}

\* C8: the store and the store without any set of hidden rows yield the same
\* hot-conversation payload and the same send decision.
C8_HiddenMessagesIgnored ==
    pc = "done" =>
        \A removed \in SUBSET HiddenRows :
            /\ [hot_conversations |-> template_payload.hot_conversations,
                emails |-> Len(sent)] \in DigestOutcomes(user_messages \ removed)
            /\ DigestOutcomes(user_messages \ removed) = DigestOutcomes(user_messages)

\* The digest reports a conversation of stream 1 while the store holds a
\* message after the cutoff of a stream the user does not see.
C8_Witness ==
    /\ pc = "done"
    /\ \E r \in HiddenRows : r.message.pub_date > CutoffTicks
    /\ TruthyList(template_payload.hot_conversations)
    /\ Len(sent) = 1

====
